---- MODULE Spec2Model ----
(***************************************************************************)
(* ElasticsearchStorage of pytest-benchmark                                *)
(* (src/pytest_benchmark/elasticsearch_storage.py): the adapter that saves *)
(* one document per benchmark in an Elasticsearch index and reads them     *)
(* back grouped into runs and sorted by parsed timestamp.                  *)
(*                                                                         *)
(* Text that the code takes apart or puts together (commit ids, datetime   *)
(* strings, document ids, run keys) is a sequence of one-character         *)
(* strings, so that formatting, parsing and prefix tests are computed.     *)
(***************************************************************************)
EXTENDS Integers, Sequences, FiniteSets, TLC

VARIABLES
  indexExists,  \* engine: the index self._elasticsearch_index exists
  store,        \* engine: the documents of the index, by id
  constructed,  \* an ElasticsearchStorage object exists (__init__ returned)
  op,           \* the last call made and what its caller observed
  queryRes      \* the last query(project) answered against the present index content

vars == <<indexExists, store, constructed, op, queryRes>>

----------------------------------------------------------------------------
(* Bounds of the model *)

\* documents the callers of this model keep in a small index
MaxDocs == 3
\* documents of an index that was filled before the model starts
BaseDocs == 1000
\* documents saved on top of the filled index
MaxBigSaves == 1
\* longest hit list for which every tie order of the engine is explored
MaxPerm == 3

----------------------------------------------------------------------------
(* Text *)

Digits == <<"0", "1", "2", "3", "4", "5", "6", "7", "8", "9">>

IsDigit(c) == \E i \in 1..10 : Digits[i] = c

DigitVal(c) == (CHOOSE i \in 1..10 : Digits[i] = c) - 1

RECURSIVE ToInt(_)
ToInt(run) ==
  IF run = <<>> THEN 0
  ELSE 10 * ToInt(SubSeq(run, 1, Len(run) - 1)) + DigitVal(run[Len(run)])

Pow10(n) == CASE n = 0 -> 1 [] n = 1 -> 10 [] n = 2 -> 100 [] n = 3 -> 1000
              [] n = 4 -> 10000 [] n = 5 -> 100000 [] OTHER -> 1000000

Min(a, b) == IF a < b THEN a ELSE b

Tail0(s, n) == SubSeq(s, n + 1, Len(s))

StartsWith(s, prefix) ==
  /\ Len(prefix) <= Len(s)
  /\ \A i \in 1..Len(prefix) : s[i] = prefix[i]

\* the number of leading digits of s, at most lim
LeadDigits(s, lim) ==
  CHOOSE n \in 0..Min(lim, Len(s)) :
    /\ \A i \in 1..n : IsDigit(s[i])
    /\ n = Min(lim, Len(s)) \/ ~IsDigit(s[n + 1])

----------------------------------------------------------------------------
(* datetime.datetime.strptime(text, "%Y-%m-%dT%H:%M:%S.%f") *)

\* the format string of load's sort key
DateFormat ==
  <<"%", "Y", "-", "%", "m", "-", "%", "d", "T", "%", "H", ":", "%", "M", ":", "%", "S", ".", "%", "f">>

\* digits a directive of strptime takes: <<fewest, most>>
StrptimeWidth ==
  [d \in {"Y", "m", "d", "H", "M", "S", "f"} |->
     CASE d = "Y" -> <<4, 4>>
       [] d = "f" -> <<1, 6>>
       [] OTHER   -> <<1, 2>>]

\* a format walked over a text: each directive takes the digits it can, each
\* other character must be equal; the values of the directives in order,
\* or <<>> when the text does not match or text is left over
RECURSIVE MatchFormat(_, _, _, _)
MatchFormat(fmt, s, width, acc) ==
  IF fmt = <<>> THEN (IF s = <<>> THEN acc ELSE <<>>)
  ELSE IF fmt[1] = "%" THEN
    LET w == width[fmt[2]]
        n == LeadDigits(s, w[2])
    IN  IF n < w[1] THEN <<>>
        ELSE MatchFormat(Tail0(fmt, 2), Tail0(s, n), width,
                         Append(acc, [d |-> fmt[2], n |-> n, v |-> ToInt(SubSeq(s, 1, n))]))
  ELSE IF s # <<>> /\ s[1] = fmt[1] THEN MatchFormat(Tail0(fmt, 1), Tail0(s, 1), width, acc)
  ELSE <<>>

IsLeap(y) == (y % 4 = 0 /\ y % 100 # 0) \/ y % 400 = 0

DaysIn(y, m) ==
  IF m = 2 THEN (IF IsLeap(y) THEN 29 ELSE 28)
  ELSE IF m \in {4, 6, 9, 11} THEN 30 ELSE 31

\* the fields datetime(...) accepts
ValidFields(y, m, d, H, M, S) ==
  /\ y >= 1
  /\ m \in 1..12
  /\ d \in 1..DaysIn(y, m)
  /\ H \in 0..23
  /\ M \in 0..59
  /\ S \in 0..59

\* [ok |-> TRUE, t |-> <<year, month, day, hour, minute, second, microsecond>>],
\* or [ok |-> FALSE] where strptime raises ValueError
strptime(text) ==
  LET f == MatchFormat(DateFormat, text, StrptimeWidth, <<>>)
  IN  IF f = <<>> THEN [ok |-> FALSE]
      ELSE IF ~ValidFields(f[1].v, f[2].v, f[3].v, f[4].v, f[5].v, f[6].v) THEN [ok |-> FALSE]
      ELSE [ok |-> TRUE,
            t  |-> <<f[1].v, f[2].v, f[3].v, f[4].v, f[5].v, f[6].v,
                     f[7].v * Pow10(6 - f[7].n)>>]

\* t1 < t2 for two datetimes
DtLess(t1, t2) ==
  \E i \in 1..7 : t1[i] < t2[i] /\ \A j \in 1..(i - 1) : t1[j] = t2[j]

DtLeq(t1, t2) == ~DtLess(t2, t1)

----------------------------------------------------------------------------
(* The engine's date field: "strict_date_optional_time" of the mapping.    *)
(* A date, optionally followed by a time of day with an optional fraction; *)
(* the engine keeps milliseconds. (The mapping's second format,            *)
(* epoch_millis, is a number and no document of the model uses it.)        *)

EsDateFormats ==
  << <<"%", "Y", "-", "%", "m", "-", "%", "d">>,
     <<"%", "Y", "-", "%", "m", "-", "%", "d", "T", "%", "H", ":", "%", "M", ":", "%", "S">>,
     <<"%", "Y", "-", "%", "m", "-", "%", "d", "T", "%", "H", ":", "%", "M", ":", "%", "S", ".", "%", "f">> >>

EsWidth ==
  [d \in {"Y", "m", "d", "H", "M", "S", "f"} |->
     CASE d = "Y" -> <<4, 4>>
       [] d = "f" -> <<1, 9>>
       [] OTHER   -> <<2, 2>>]

\* [ok |-> TRUE, t |-> <<year, month, day, hour, minute, second, millisecond>>],
\* or [ok |-> FALSE] where the engine rejects the document
EsDate(text) ==
  LET Fields(i) == MatchFormat(EsDateFormats[i], text, EsWidth, <<>>)
      Val(f, k) == IF k <= Len(f) THEN f[k].v ELSE 0
      Millis(f) == IF Len(f) < 7 THEN 0
                   ELSE IF f[7].n >= 3 THEN ToInt(SubSeq(Tail0(text, 20), 1, 3))
                   ELSE f[7].v * Pow10(3 - f[7].n)
      good == {i \in 1..3 : /\ Fields(i) # <<>>
                            /\ ValidFields(Val(Fields(i), 1), Val(Fields(i), 2), Val(Fields(i), 3),
                                           Val(Fields(i), 4), Val(Fields(i), 5), Val(Fields(i), 6))}
  IN  IF good = {} THEN [ok |-> FALSE]
      ELSE LET f == Fields(CHOOSE i \in good : TRUE)
           IN  [ok |-> TRUE,
                t  |-> <<Val(f, 1), Val(f, 2), Val(f, 3), Val(f, 4), Val(f, 5), Val(f, 6), Millis(f)>>]

----------------------------------------------------------------------------
(* Documents *)

\* "2020-01-01T00:00:00.000000"
DT_JAN1 ==
  <<"2", "0", "2", "0", "-", "0", "1", "-", "0", "1", "T", "0", "0", ":", "0", "0", ":", "0", "0", ".", "0", "0", "0", "0", "0", "0">>

\* "2020-01-01T00:00:00.000"
DT_JAN1_MS ==
  <<"2", "0", "2", "0", "-", "0", "1", "-", "0", "1", "T", "0", "0", ":", "0", "0", ":", "0", "0", ".", "0", "0", "0">>

\* "2020-01-02T00:00:00.000000"
DT_JAN2 ==
  <<"2", "0", "2", "0", "-", "0", "1", "-", "0", "2", "T", "0", "0", ":", "0", "0", ":", "0", "0", ".", "0", "0", "0", "0", "0", "0">>

\* "2020-01-03T00:00:00"
DT_NOFRAC ==
  <<"2", "0", "2", "0", "-", "0", "1", "-", "0", "3", "T", "0", "0", ":", "0", "0", ":", "0", "0">>

\* "now"
DT_BAD ==
  <<"n", "o", "w">>

DateStrings == {DT_JAN1, DT_JAN1_MS, DT_JAN2, DT_NOFRAC, DT_BAD}

\* the two parsers, tabulated over the datetime strings of the model
StrptimeOf == [s \in DateStrings |-> strptime(s)]

EsDateOf == [s \in DateStrings |-> EsDate(s)]

Projects == {"p", "q"}

\* one document per benchmark, as the plugin hands it to save
Doc(project, commit, dt, machine, name) ==
  [ machine_info |-> [node |-> machine],
    commit_info  |-> [id |-> commit, project |-> project, dirty |-> FALSE],
    datetime     |-> dt,
    version      |-> "3.0.0",
    group        |-> "None",
    stats        |-> [rounds |-> 5],
    options      |-> [warmup |-> FALSE],
    param        |-> "None",
    name         |-> name,
    params       |-> "{}",
    fullname     |-> <<"test_it.py", name>> ]

Docs ==
  { Doc("p", <<"a">>, DT_JAN1,    "m1", "n1"),
    Doc("p", <<"a">>, DT_JAN1,    "m2", "n2"),
    Doc("p", <<"a">>, DT_JAN2,    "m1", "n1"),
    Doc("p", <<"b">>, DT_JAN1_MS, "m1", "n1"),
    Doc("p", <<"b">>, DT_NOFRAC,  "m1", "n1"),
    Doc("q", <<"a">>, DT_JAN1,    "m1", "n1"),
    Doc("p", <<"a">>, DT_BAD,     "m1", "n1") }

\* the identifiers given to save
IdSeq == << <<"x">>, <<"x", "y">>, <<"z">> >>

Ids == {IdSeq[i] : i \in 1..Len(IdSeq)}

\* the id_prefix argument: None, or a string
None == [isNone |-> TRUE, text |-> <<>>]

Str(text) == [isNone |-> FALSE, text |-> text]

Prefixes == { None, Str(<<>>), Str(<<"x">>) }

\* Python's truth value of an id_prefix
Truthy(x) == ~x.isNone /\ x.text # <<>>

\* the index that was filled before the model starts: documents of one run
\* of project "p", all of the same datetime
BaseId(n) ==
  <<"r", Digits[((n \div 1000) % 10) + 1], Digits[((n \div 100) % 10) + 1],
         Digits[((n \div 10) % 10) + 1], Digits[(n % 10) + 1]>>

BaseStore == [id \in {BaseId(n) : n \in 1..BaseDocs} |-> Doc("p", <<"c">>, DT_JAN1, "m1", "n1")]

\* every id of the model, in the order in which the index lists its documents
AllIds == [n \in 1..BaseDocs |-> BaseId(n)] \o IdSeq

\* what is saved on top of the filled index
BigDocs ==
  { Doc("p", <<"a">>, DT_JAN1, "m2", "n2"),
    Doc("p", <<"a">>, DT_JAN2, "m1", "n1") }

BigIds == { <<"x">> }

----------------------------------------------------------------------------
(* The engine, as the adapter uses it *)

\* "size" of the search body
SearchSize == 1000

\* faulty variant: indices.create is told to ignore nothing
IgnoreNothing == {}

\* the status codes indices.create is told to ignore
IgnoredStatuses == {400}

\* the answers of the engine to indices.create
CreateResponses(exists) ==
  IF exists
  THEN { [status |-> 400, reason |-> "index_already_exists_exception"],
         [status |-> 503, reason |-> "unavailable"] }
  ELSE { [status |-> 200, reason |-> "acknowledged"],
         [status |-> 400, reason |-> "mapper_parsing_exception"],
         [status |-> 503, reason |-> "unavailable"] }

\* the client raises TransportError unless the status is a success or ignored
ClientRaises(response, ignore) ==
  ~(response.status \in 200..299) /\ response.status \notin ignore

\* index(id, body): the document replaces the one of the same id
EsIndex(docs, document, id) == (id :> document) @@ docs

EsCount(docs) == Cardinality(DOMAIN docs)

\* the documents of the index, one after the other
IndexOrder(docs) ==
  LET Held(id) == id \in DOMAIN docs
      ids      == SelectSeq(AllIds, Held)
  IN  [i \in 1..Len(ids) |-> [id |-> ids[i], source |-> docs[ids[i]]]]

\* the filter of a search body
EsMatches(body, e) ==
  /\ e.source.commit_info.project = body.query.filter.term
  /\ "must" \in DOMAIN body.query => StartsWith(e.id, body.query.must.prefix)

EsSortValue(e) == EsDateOf[e.source.datetime].t

\* s sorted by descending sort value, equal values keeping their order in s
RECURSIVE EsSortDescFrom(_, _)
EsSortDescFrom(s, values) ==
  IF values = {} THEN <<>>
  ELSE LET top == CHOOSE v \in values : \A w \in values : DtLeq(w, v)
           Has(e) == EsSortValue(e) = top
       IN  SelectSeq(s, Has) \o EsSortDescFrom(s, values \ {top})

EsSortDesc(s) == EsSortDescFrom(s, {EsSortValue(s[i]) : i \in 1..Len(s)})

Reverse(s) == [i \in 1..Len(s) |-> s[Len(s) + 1 - i]]

\* the orders in which the engine may hold documents of equal sort value:
\* every order for a short list, index order and its reverse for a long one
Arrangements(docs) ==
  LET s == IndexOrder(docs)
  IN  IF Len(s) <= MaxPerm
      THEN { [i \in 1..Len(s) |-> s[f[i]]] : f \in Permutations(1..Len(s)) }
      ELSE { s, Reverse(s) }

Hit(e) == [_id |-> e.id, _source |-> e.source]

\* search(body): the matching documents of the index held in arrangement
\* arr, sorted as the body asks, cut to its size
EsSearch(body, arr) ==
  LET Match(e) == EsMatches(body, e)
      sorted   == EsSortDesc(SelectSeq(arr, Match))
  IN  [i \in 1..Min(body.size, Len(sorted)) |-> Hit(sorted[i])]

----------------------------------------------------------------------------
(* ElasticsearchStorage *)

\* faulty variant: the prefix is never made a condition of the search
SearchBodyNoPrefix(project, id_prefix) ==
  [ size  |-> SearchSize,
    sort  |-> [datetime |-> [order |-> "desc"]],
    query |-> [filter |-> [term |-> project]] ]

\* faulty variant: the search asks for ten times as many hits
SearchBodyUnbounded(project, id_prefix) ==
  IF Truthy(id_prefix)
  THEN [ size  |-> 10 * SearchSize,
         sort  |-> [datetime |-> [order |-> "desc"]],
         query |-> [filter |-> [term |-> project], must |-> [prefix |-> id_prefix.text]] ]
  ELSE [ size  |-> 10 * SearchSize,
         sort  |-> [datetime |-> [order |-> "desc"]],
         query |-> [filter |-> [term |-> project]] ]

\* _search: the body sent to the engine
SearchBody(project, id_prefix) ==
  IF Truthy(id_prefix)
  THEN [ size  |-> SearchSize,
         sort  |-> [datetime |-> [order |-> "desc"]],
         query |-> [filter |-> [term |-> project], must |-> [prefix |-> id_prefix.text]] ]
  ELSE [ size  |-> SearchSize,
         sort  |-> [datetime |-> [order |-> "desc"]],
         query |-> [filter |-> [term |-> project]] ]

\* _search: r["hits"]["hits"], the engine holding the index in arrangement arr
_search(project, id_prefix, arr) == EsSearch(SearchBody(project, id_prefix), arr)

BenchmarkKeys == {"group", "stats", "options", "param", "name", "params", "fullname"}

RunKeys == {"machine_info", "commit_info", "datetime", "version"}

\* faulty variant: "params" is read from "param"
BenchmarkParamTwice(source_es_record) ==
  [benchmark_key \in BenchmarkKeys |->
     IF benchmark_key = "params" THEN source_es_record["param"]
     ELSE source_es_record[benchmark_key]]

_benchmark_from_es_record(source_es_record) ==
  [benchmark_key \in BenchmarkKeys |-> source_es_record[benchmark_key]]

_run_info_from_es_record(source_es_record) ==
  [run_key \in RunKeys |-> source_es_record[run_key]]

\* "%s_%s" % (source_hit["commit_info"]["id"], source_hit["datetime"])
CommitAndTime(source_hit) == source_hit.commit_info.id \o <<"_">> \o source_hit.datetime

\* a Python dict: its keys in insertion order, and its values
EmptyDict == [order |-> <<>>, at |-> <<>>]

\* faulty variant: a hit of a key already seen starts the run record anew
GroupHitReplace(result, hit) ==
  LET source_hit == hit._source
      key        == CommitAndTime(source_hit)
      benchmark  == _benchmark_from_es_record(source_hit)
      run_info   == _run_info_from_es_record(source_hit) @@ [benchmarks |-> <<benchmark>>]
  IN  IF key \in DOMAIN result.at
      THEN [result EXCEPT !.at[key] = run_info]
      ELSE [order |-> Append(result.order, key), at |-> (key :> run_info) @@ result.at]

\* faulty variant: a hit of a key already seen also overwrites the run's fields
GroupHitLast(result, hit) ==
  LET source_hit == hit._source
      key        == CommitAndTime(source_hit)
      benchmark  == _benchmark_from_es_record(source_hit)
  IN  IF key \in DOMAIN result.at
      THEN [result EXCEPT !.at[key] =
              _run_info_from_es_record(source_hit)
                @@ [benchmarks |-> Append(result.at[key].benchmarks, benchmark)]]
      ELSE [ order |-> Append(result.order, key),
             at    |-> (key :> (_run_info_from_es_record(source_hit)
                                  @@ [benchmarks |-> <<benchmark>>])) @@ result.at ]

\* the body of the loop of _group_by_commit_and_time
GroupHit(result, hit) ==
  LET source_hit == hit._source
      key        == CommitAndTime(source_hit)
      benchmark  == _benchmark_from_es_record(source_hit)
  IN  IF key \in DOMAIN result.at
      THEN [result EXCEPT !.at[key].benchmarks = Append(@, benchmark)]
      ELSE [ order |-> Append(result.order, key),
             at    |-> (key :> (_run_info_from_es_record(source_hit)
                                  @@ [benchmarks |-> <<benchmark>>])) @@ result.at ]

\* the loop over hits[lo..hi], in order, starting from result
RECURSIVE GroupHits(_, _, _, _)
GroupHits(hits, lo, hi, result) ==
  IF lo > hi THEN result
  ELSE IF lo = hi THEN GroupHit(result, hits[lo])
  ELSE LET mid   == (lo + hi) \div 2
           first == GroupHits(hits, lo, mid, result)
       IN  \* (the test has the first half computed before the second is entered)
           IF Len(first.order) >= 0 THEN GroupHits(hits, mid + 1, hi, first) ELSE first

_group_by_commit_and_time(hits) == GroupHits(hits, 1, Len(hits), EmptyDict)

\* faulty variant: the list is left as it is
PySortNone(items, keyed) == items

\* list.sort(key=...): every key is computed first; then a stable sort.
\* keyed[i] is the key of items[i]
PySort(items, keyed) ==
  LET n == Len(items)
      Before(i, j) == DtLess(keyed[i], keyed[j]) \/ (~DtLess(keyed[j], keyed[i]) /\ i < j)
      Rank(i) == Cardinality({j \in 1..n : Before(j, i)}) + 1
  IN  [r \in 1..n |-> items[CHOOSE i \in 1..n : Rank(i) = r]]

\* faulty variant: a run record whose datetime does not parse is left out
load_skipping(hits) ==
  LET groupped_data == _group_by_commit_and_time(hits)
      Parses(key) == StrptimeOf[groupped_data.at[key].datetime].ok
      order  == SelectSeq(groupped_data.order, Parses)
      result == [i \in 1..Len(order) |-> <<order[i], groupped_data.at[order[i]]>>]
  IN  [status |-> "ok",
       out |-> PySort(result, [i \in 1..Len(result) |-> StrptimeOf[result[i][2].datetime].t])]

\* load, from the hits r["hits"]["hits"] of its search to what a caller that
\* consumes it sees: [status, out], out the pairs yielded
load(hits) ==
  LET groupped_data == _group_by_commit_and_time(hits)
      result == [i \in 1..Len(groupped_data.order) |->
                   <<groupped_data.order[i], groupped_data.at[groupped_data.order[i]]>>]
      parsed == [i \in 1..Len(result) |-> StrptimeOf[result[i][2].datetime]]
  IN  IF \E i \in 1..Len(result) : ~parsed[i].ok
      THEN [status |-> "ValueError", out |-> <<>>]
      ELSE [status |-> "ok", out |-> PySort(result, [i \in 1..Len(result) |-> parsed[i].t])]

\* faulty variant: the keys are listed as they were grouped, not as load yields them
query_unsorted(hits) ==
  [status |-> load(hits).status,
   out |-> IF load(hits).status = "ok" THEN _group_by_commit_and_time(hits).order ELSE <<>>]

\* query, from the hits of load's search:
\* [commit_and_time for commit_and_time, _ in self.load(project)]
query(hits) ==
  LET l == load(hits)
  IN  [status |-> l.status, out |-> [i \in 1..Len(l.out) |-> l.out[i][1]]]

\* load_benchmarks, from the hits r["hits"]["hits"] of its search
load_benchmarks(hits) == [i \in 1..Len(hits) |-> _benchmark_from_es_record(hits[i]._source)]

----------------------------------------------------------------------------
(* Actions: one per call of a caller *)

NoCall == [name |-> "none"]

Init ==
  /\ indexExists = FALSE
  /\ store = <<>>
  /\ constructed = FALSE
  /\ op = NoCall
  /\ queryRes = NoCall

\* __init__ with _create_index
Construct ==
  \E installed \in BOOLEAN, response \in CreateResponses(indexExists) :
    LET status == IF ~installed THEN "ImportError"
                  ELSE IF ClientRaises(response, IgnoredStatuses) THEN "TransportError"
                  ELSE "ok"
    IN  /\ op' = [name |-> "__init__", installed |-> installed, existed |-> indexExists,
                  response |-> IF installed THEN response ELSE [status |-> 0, reason |-> "not sent"],
                  status |-> status]
        /\ constructed' = (constructed \/ status = "ok")
        /\ indexExists' = (indexExists \/ (installed /\ response.status = 200))
        /\ UNCHANGED <<store, queryRes>>

\* save(document, document_id); the engine rejects a document whose datetime
\* its mapping does not accept
Save(document, document_id) ==
  /\ constructed /\ indexExists
  /\ IF EsDateOf[document.datetime].ok
     THEN /\ store' = EsIndex(store, document, document_id)
          /\ op' = [name |-> "save", document |-> document, id |-> document_id, status |-> "ok"]
          /\ queryRes' = NoCall
     ELSE /\ op' = [name |-> "save", document |-> document, id |-> document_id,
                    status |-> "RequestError"]
          /\ UNCHANGED <<store, queryRes>>
  /\ UNCHANGED <<indexExists, constructed>>

\* load(project, id_prefix), consumed to its end
Load(project, id_prefix) ==
  /\ constructed /\ indexExists
  /\ \E hits \in {_search(project, id_prefix, arr) : arr \in Arrangements(store)} :
       LET l == load(hits)
       IN  op' = [name |-> "load", project |-> project, id_prefix |-> id_prefix,
                  body |-> SearchBody(project, id_prefix), hits |-> hits,
                  status |-> l.status, out |-> l.out]
  /\ UNCHANGED <<indexExists, store, constructed, queryRes>>

\* query(project)
Query(project) ==
  /\ constructed /\ indexExists
  /\ \E hits \in {_search(project, None, arr) : arr \in Arrangements(store)} :
       LET q == query(hits)
       IN  queryRes' = [name |-> "query", project |-> project, hits |-> hits,
                        status |-> q.status, out |-> q.out]
  /\ UNCHANGED <<indexExists, store, constructed, op>>

\* load_benchmarks(project), consumed to its end
LoadBenchmarks(project) ==
  /\ constructed /\ indexExists
  /\ \E hits \in {_search(project, None, arr) : arr \in Arrangements(store)} :
       op' = [name |-> "load_benchmarks", project |-> project, hits |-> hits,
              status |-> "ok", out |-> load_benchmarks(hits)]
  /\ UNCHANGED <<indexExists, store, constructed, queryRes>>

\* the index stays small
SaveSmall ==
  \E document \in Docs, document_id \in Ids :
    /\ EsCount(EsIndex(store, document, document_id)) <= MaxDocs
    /\ Save(document, document_id)

Next ==
  \/ Construct
  \/ SaveSmall
  \/ \E project \in Projects, id_prefix \in Prefixes : Load(project, id_prefix)
  \/ \E project \in Projects : Query(project)
  \/ \E project \in Projects : LoadBenchmarks(project)

Spec == Init /\ [][Next]_vars

(* The same adapter, also against an index that holds BaseDocs documents   *)
(* when the first call is made.                                            *)

InitBig ==
  /\ \/ indexExists = FALSE /\ store = <<>>
     \/ indexExists = TRUE /\ store = BaseStore
  /\ constructed = FALSE
  /\ op = NoCall
  /\ queryRes = NoCall

SaveBig ==
  \E document \in BigDocs, document_id \in BigIds :
    /\ EsCount(store) >= BaseDocs
    /\ EsCount(EsIndex(store, document, document_id)) <= BaseDocs + MaxBigSaves
    /\ Save(document, document_id)

NextBig ==
  \/ Construct
  \/ SaveSmall
  \/ SaveBig
  \/ \E project \in Projects : Load(project, None)
  \/ \E project \in Projects : LoadBenchmarks(project)

SpecBig == InitBig /\ [][NextBig]_vars

----------------------------------------------------------------------------
(* What the claims speak of *)

\* the ids of the saved documents of a project
ProjectIds(project) == {id \in DOMAIN store : store[id].commit_info.project = project}

KeysOfHits(hits) == {CommitAndTime(hits[i]._source) : i \in 1..Len(hits)}

KeysOfPairs(out) == [i \in 1..Len(out) |-> out[i][1]]

HitsOfKey(hits, key) ==
  LET Keyed(h) == CommitAndTime(h._source) = key
  IN  SelectSeq(hits, Keyed)

\* the benchmark record of a document, field by field
BenchmarkRecord(source) ==
  [ group |-> source.group, stats |-> source.stats, options |-> source.options,
    param |-> source.param, name |-> source.name, params |-> source.params,
    fullname |-> source.fullname ]

RECURSIVE BenchmarkCount(_)
BenchmarkCount(out) ==
  IF out = <<>> THEN 0 ELSE Len(out[1][2].benchmarks) + BenchmarkCount(Tail(out))

\* the last call was a load(project) without prefix that ran to its end
LoadedProject == op.name = "load" /\ ~Truthy(op.id_prefix) /\ op.status = "ok"

\* the hits of the last call are distinct saved documents of its project, and
\* as many of them as the size of the search allows
HitsAreProjectDocuments ==
  /\ \A i \in 1..Len(op.hits) :
       /\ op.hits[i]._id \in ProjectIds(op.project)
       /\ op.hits[i]._source = store[op.hits[i]._id]
  /\ Cardinality({op.hits[i]._id : i \in 1..Len(op.hits)}) = Len(op.hits)
  /\ Len(op.hits) = Min(SearchSize, Cardinality(ProjectIds(op.project)))

----------------------------------------------------------------------------
(* C1 *)

\* C1 as stated: load(project) yields one pair per distinct key of the saved
\* documents of the project, and the benchmarks of the pair of key k are one
\* per saved document of key k, whatever the number of saved documents.
C1_EverySavedDocumentGrouped ==
  LoadedProject =>
    LET ids  == ProjectIds(op.project)
        keys == {CommitAndTime(store[id]) : id \in ids}
    IN  /\ Len(op.out) = Cardinality(keys)
        /\ \A i, j \in 1..Len(op.out) : i # j => op.out[i][1] # op.out[j][1]
        /\ \A i \in 1..Len(op.out) :
             LET mine == {id \in ids : CommitAndTime(store[id]) = op.out[i][1]}
             IN  /\ Len(op.out[i][2].benchmarks) = Cardinality(mine)
                 /\ \A id \in mine : \E j \in 1..Len(op.out[i][2].benchmarks) :
                      op.out[i][2].benchmarks[j] = BenchmarkRecord(store[id])

\* C1, amended: load(project) yields one pair per distinct key among the hits
\* of its search, the keys pairwise distinct, and the benchmarks of the pair of
\* key k are one per hit of key k, in the order of the hits; the hits are
\* distinct saved documents of the project, min(N, 1000) of them, so that up to
\* 1000 saved documents each appear in exactly one run record, and none of
\* another project does.
C1_EveryHitGrouped ==
  LoadedProject =>
    /\ HitsAreProjectDocuments
    /\ Len(op.out) = Cardinality(KeysOfHits(op.hits))
    /\ {op.out[i][1] : i \in 1..Len(op.out)} = KeysOfHits(op.hits)
    /\ \A i \in 1..Len(op.out) :
         LET mine == HitsOfKey(op.hits, op.out[i][1])
         IN  op.out[i][2].benchmarks = [j \in 1..Len(mine) |-> BenchmarkRecord(mine[j]._source)]

\* a load of a project of more documents than one search returns, in two runs
C1_Witness ==
  /\ LoadedProject
  /\ Cardinality(ProjectIds(op.project)) > SearchSize
  /\ Len(op.out) = 2
  /\ BenchmarkCount(op.out) = SearchSize

----------------------------------------------------------------------------
(* C2 *)

\* C2: the pairs load yields are in non-decreasing order of the parsed
\* datetime of their run records, whatever the order of the hits.
C2_YieldedInTimeOrder ==
  (op.name = "load" /\ op.status = "ok") =>
    \A i \in 1..(Len(op.out) - 1) :
      /\ strptime(op.out[i][2].datetime).ok
      /\ strptime(op.out[i + 1][2].datetime).ok
      /\ DtLeq(strptime(op.out[i][2].datetime).t, strptime(op.out[i + 1][2].datetime).t)

\* the engine returned the later run first and load yields it last
C2_Witness ==
  /\ op.name = "load" /\ op.status = "ok"
  /\ Len(op.out) >= 2
  /\ CommitAndTime(op.hits[1]._source) = op.out[Len(op.out)][1]
  /\ DtLess(strptime(op.out[1][2].datetime).t, strptime(op.out[Len(op.out)][2].datetime).t)

----------------------------------------------------------------------------
(* C3 *)

\* a query and a load without prefix of one project, both answered against
\* the present content of the index
QueriedAndLoaded ==
  /\ op.name = "load" /\ op.id_prefix.isNone
  /\ queryRes.name = "query" /\ queryRes.project = op.project

\* C3 as stated: query(project) returns the keys load(project) yields against
\* the same content of the index, in the same order.
C3_QueryEqualsLoadKeys ==
  QueriedAndLoaded =>
    /\ queryRes.status = op.status
    /\ queryRes.out = KeysOfPairs(op.out)

\* C3, amended: query(project) returns the keys of the run records of the hits
\* of its own search; they are the keys load(project) yields, in the same
\* order, whenever the engine answers both searches with the same hits in the
\* same order, which the content of the index does not determine.
C3_QueryEqualsLoadKeysOfSameHits ==
  /\ (queryRes.name = "query" /\ queryRes.status = "ok") =>
       /\ {queryRes.out[i] : i \in 1..Len(queryRes.out)} = KeysOfHits(queryRes.hits)
       /\ Len(queryRes.out) = Cardinality(KeysOfHits(queryRes.hits))
  /\ (QueriedAndLoaded /\ queryRes.hits = op.hits) =>
       /\ queryRes.status = op.status
       /\ queryRes.out = KeysOfPairs(op.out)

\* both searches got the same hits, of two runs, the later run first
C3_Witness ==
  /\ QueriedAndLoaded
  /\ queryRes.hits = op.hits
  /\ queryRes.status = "ok"
  /\ Len(queryRes.out) = 2
  /\ queryRes.out[1] # CommitAndTime(queryRes.hits[1]._source)

----------------------------------------------------------------------------
(* C4 *)

\* C4: with a non-empty id_prefix the run records of load are built from the
\* documents of the project whose id starts with it, and only from them; with
\* None or "" the search has no prefix condition and the hits are the
\* documents of the project.
C4_PrefixFilter ==
  op.name = "load" =>
    LET wanted == IF Truthy(op.id_prefix)
                  THEN {id \in ProjectIds(op.project) : StartsWith(id, op.id_prefix.text)}
                  ELSE ProjectIds(op.project)
    IN  /\ Truthy(op.id_prefix) =>
             /\ "must" \in DOMAIN op.body.query
             /\ op.body.query.must.prefix = op.id_prefix.text
        /\ ~Truthy(op.id_prefix) =>
             /\ "must" \notin DOMAIN op.body.query
             /\ op.body = SearchBody(op.project, None)
        /\ {op.hits[i]._id : i \in 1..Len(op.hits)} = wanted
        /\ Len(op.hits) = Cardinality(wanted)
        /\ op.status = "ok" =>
             /\ BenchmarkCount(op.out) = Len(op.hits)
             /\ \A i \in 1..Len(op.out) : \A j \in 1..Len(op.out[i][2].benchmarks) :
                  \E h \in 1..Len(op.hits) :
                    /\ CommitAndTime(op.hits[h]._source) = op.out[i][1]
                    /\ BenchmarkRecord(op.hits[h]._source) = op.out[i][2].benchmarks[j]

\* a load by prefix that left out a document of the project
C4_Witness ==
  /\ op.name = "load" /\ Truthy(op.id_prefix) /\ op.status = "ok"
  /\ Len(op.hits) >= 1
  /\ \E id \in ProjectIds(op.project) : ~StartsWith(id, op.id_prefix.text)

----------------------------------------------------------------------------
(* C5 *)

\* C5: a construction that finds the index existing (the engine answers the
\* creation with "already exists") raises nothing and leaves the index and
\* its documents as they were, however often it is repeated.
C5_CreateExistingIsNoError ==
  [][ (/\ op'.name = "__init__"
       /\ indexExists
       /\ op'.installed
       /\ op'.response.reason = "index_already_exists_exception")
      => (op'.status = "ok" /\ constructed' /\ indexExists' /\ store' = store) ]_vars

\* a construction against an index that exists and holds documents
C5_Witness ==
  /\ op.name = "__init__"
  /\ op.existed
  /\ op.response.reason = "index_already_exists_exception"
  /\ op.status = "ok"
  /\ constructed
  /\ EsCount(store) >= 2

----------------------------------------------------------------------------
(* C6 *)

\* C6: of the failures of the creation request only "already exists" is
\* ignored: every other failure the engine reports reaches the caller of the
\* constructor.
C6_OtherCreationErrorsPropagate ==
  (/\ op.name = "__init__"
   /\ op.installed
   /\ op.response.status \notin 200..299
   /\ op.response.reason # "index_already_exists_exception")
  => op.status = "TransportError"

----------------------------------------------------------------------------
(* C7 *)

\* a load(project) made right after the save of a document of the project
SavedThenLoaded ==
  /\ op.name = "save" /\ op.status = "ok"
  /\ op'.name = "load" /\ ~Truthy(op'.id_prefix)
  /\ op'.project = op.document.commit_info.project

\* the pair of run record r and document d agree on the fields of a benchmark
SameBenchmark(b, d) ==
  /\ b.group = d.group /\ b.stats = d.stats /\ b.options = d.options
  /\ b.name = d.name /\ b.params = d.params /\ b.fullname = d.fullname

SameRun(r, d) ==
  /\ r.machine_info = d.machine_info /\ r.commit_info = d.commit_info
  /\ r.datetime = d.datetime /\ r.version = d.version

\* C7 as stated: after save(document, id), load yields a run record under the
\* key of the document with the run fields of the document, and with a
\* benchmark that has the benchmark fields of the document.
C7_RoundTrip ==
  [][ SavedThenLoaded =>
        \E i \in 1..Len(op'.out) :
          /\ op'.out[i][1] = CommitAndTime(op.document)
          /\ SameRun(op'.out[i][2], op.document)
          /\ \E j \in 1..Len(op'.out[i][2].benchmarks) :
               SameBenchmark(op'.out[i][2].benchmarks[j], op.document) ]_vars

\* C7, amended: load after save(document, id) fails with ValueError exactly
\* when the datetime of a hit does not parse; otherwise, if the document is
\* among the hits (it is when the project has at most 1000 documents), load
\* yields a run record under the key of the document, with its datetime and
\* commit id, whose benchmarks hold a record with the group, stats, options,
\* param, name, params and fullname of the document; machine_info, commit_info
\* and version are those of the first hit of that key, the document's own when
\* the document is that hit.
C7_RoundTripOfHits ==
  [][ SavedThenLoaded =>
        LET doc  == op.document
            hits == op'.hits
            out  == op'.out
            at   == {h \in 1..Len(hits) : hits[h]._id = op.id}
        IN  /\ (op'.status = "ok") = (\A h \in 1..Len(hits) : strptime(hits[h]._source.datetime).ok)
            /\ op'.status # "ok" => (op'.status = "ValueError" /\ out = <<>>)
            /\ Cardinality(ProjectIds(op'.project)) <= 1000 => at # {}
            /\ \A h \in at : hits[h]._source = doc
            /\ (op'.status = "ok" /\ at # {}) =>
                 \E i \in 1..Len(out) :
                   LET first == HitsOfKey(hits, out[i][1])[1]._source
                   IN  /\ out[i][1] = CommitAndTime(doc)
                       /\ out[i][2].datetime = doc.datetime
                       /\ out[i][2].commit_info.id = doc.commit_info.id
                       /\ \E j \in 1..Len(out[i][2].benchmarks) :
                            /\ SameBenchmark(out[i][2].benchmarks[j], doc)
                            /\ out[i][2].benchmarks[j].param = doc.param
                       /\ SameRun(out[i][2], first)
                       /\ (\E h \in at : HitsOfKey(hits, out[i][1])[1] = hits[h])
                            => SameRun(out[i][2], doc) ]_vars

\* the last load gave the run of a saved document the machine of another
\* document of the same key
C7_Witness ==
  /\ LoadedProject
  /\ \E i \in 1..Len(op.out) : \E h \in 1..Len(op.hits) :
       /\ CommitAndTime(op.hits[h]._source) = op.out[i][1]
       /\ op.hits[h]._source.machine_info # op.out[i][2].machine_info
       /\ BenchmarkRecord(op.hits[h]._source) = op.out[i][2].benchmarks[Len(op.out[i][2].benchmarks)]

----------------------------------------------------------------------------
(* C8 *)

\* C8: load_benchmarks yields the benchmark record of each hit of one search,
\* hit by hit in the order of the hits, ungrouped, hence at most 1000 of them
\* whatever the number of documents; load too holds at most 1000 benchmarks.
C8_BenchmarksOfHitsAtMost1000 ==
  /\ op.name = "load_benchmarks" =>
       /\ HitsAreProjectDocuments
       /\ Len(op.out) = Len(op.hits)
       /\ Len(op.out) <= 1000
       /\ \A i \in 1..Len(op.out) : op.out[i] = BenchmarkRecord(op.hits[i]._source)
  /\ op.name = "load" => BenchmarkCount(op.out) <= 1000

\* load_benchmarks of a project of more than 1000 documents
C8_Witness ==
  /\ op.name = "load_benchmarks"
  /\ Cardinality(ProjectIds(op.project)) > 1000
  /\ Len(op.out) = 1000

----------------------------------------------------------------------------
(* C9 *)

SomeHitUnparsed(hits) == \E h \in 1..Len(hits) : ~strptime(hits[h]._source.datetime).ok

\* C9: when the datetime of a run record among the hits does not parse, load
\* and query fail with the ValueError of the parse and yield nothing, not
\* even the runs whose datetime parses.
C9_UnparsedDatetimeFailsWhole ==
  /\ (op.name = "load" /\ SomeHitUnparsed(op.hits)) =>
       (op.status = "ValueError" /\ op.out = <<>>)
  /\ (queryRes.name = "query" /\ SomeHitUnparsed(queryRes.hits)) =>
       (queryRes.status = "ValueError" /\ queryRes.out = <<>>)

\* a failed load whose hits hold a run that parses and one that does not
C9_Witness ==
  /\ op.name = "load" /\ op.status = "ValueError"
  /\ \E h \in 1..Len(op.hits) : strptime(op.hits[h]._source.datetime).ok
  /\ SomeHitUnparsed(op.hits)

----------------------------------------------------------------------------
(* C10 *)

\* C10: the hits of one commit id and one datetime string make one run
\* record: its benchmarks are those of all these hits in the order of the
\* hits, its machine_info, commit_info, datetime and version those of the
\* first of them.
C10_SameKeyMerged ==
  (op.name = "load" /\ op.status = "ok") =>
    \A key \in KeysOfHits(op.hits) :
      LET mine  == HitsOfKey(op.hits, key)
          pairs == {i \in 1..Len(op.out) : op.out[i][1] = key}
      IN  /\ Cardinality(pairs) = 1
          /\ \A i \in pairs :
               /\ op.out[i][2].benchmarks =
                    [j \in 1..Len(mine) |-> BenchmarkRecord(mine[j]._source)]
               /\ SameRun(op.out[i][2], mine[1]._source)

\* two documents of one key and of different machines in one run record
C10_Witness ==
  /\ op.name = "load" /\ op.status = "ok"
  /\ \E h1, h2 \in 1..Len(op.hits) :
       /\ h1 < h2
       /\ CommitAndTime(op.hits[h1]._source) = CommitAndTime(op.hits[h2]._source)
       /\ op.hits[h1]._source.machine_info # op.hits[h2]._source.machine_info
       /\ \E i \in 1..Len(op.out) :
            /\ op.out[i][1] = CommitAndTime(op.hits[h1]._source)
            /\ Len(op.out[i][2].benchmarks) = 2
            /\ op.out[i][2].machine_info = op.hits[h1]._source.machine_info

====
